---- MODULE Spec2Model ----
(***************************************************************************)
(* Incremental contact collection of find_consultancy_contacts.py:         *)
(* KeyPool, SearchCache, the two remote clients' request-with-failover     *)
(* loop, load_existing_contacts, collect_contacts, write_excel and main.   *)
(* One process runs at a time; the cache file and the spreadsheet live on  *)
(* disk and survive it.                                                    *)
(***************************************************************************)
EXTENDS Integers, Sequences, FiniteSets, TLC

\* ---------------------------------------------------------------- bounds
\* Largest number of credentials per service a run is configured with.
MaxKeys == 2
\* Largest number of persons in one remote response.
MaxPeople == 1
\* Number of process runs (invocations of main) in one behaviour.
MaxRuns == 2
\* Number of HTTP responses the remote services deliver in one behaviour;
\* once spent, every further request ends in a network-level failure.
MaxResponses == 2

\* ------------------------------------------------------- static configuration
\* CONSULTANCIES, cut down to its first two entries.
CONSULTANCIES ==
    << [name |-> "Accenture", domain |-> "accenture.com"],
       [name |-> "Deloitte", domain |-> "deloitte.com"] >>

NoKey == -1

\* What a request came back with: nothing yet, no response at all
\* (requests.exceptions.RequestException), or resp.status_code.
NoResponse == -1
NetworkError == 0

\* The count of responses of a behaviour in which the remote services answer
\* as often as they are asked, and the count after one more response.
Unmetered == -1
Delivered(n) == IF n = Unmetered THEN n ELSE n + 1

\* Exit status of the process: none while it runs or before the first run;
\* 137 is a process ended by SIGKILL.
NoExit == -1
Killed == 137

\* ------------------------------------------------------------------ strings
\* str.lower() on the vocabulary of the model.
Lower(s) ==
    CASE s = "Accenture"   -> "accenture"
      [] s = "Deloitte"    -> "deloitte"
      [] s = "Jane"        -> "jane"
      [] s = "Doe"         -> "doe"
      [] s = "Jo"          -> "jo"
      [] s = "Roe"         -> "roe"
      [] s = "Ann"         -> "ann"
      [] s = "Lee"         -> "lee"
      [] s = "JD@acc.com"  -> "jd@acc.com"
      [] OTHER             -> s

\* str.strip() on the vocabulary of the model.
Strip(s) ==
    CASE s = " "     -> ""
      [] s = "Jane " -> "Jane"
      [] OTHER       -> s

\* f"{first}|{last}|{name}".lower(): the three parts, lower-cased.
NameKey(first, last, name) == << Lower(first), Lower(last), Lower(name) >>

\* email.lower() as a member of seen.
EmailKey(email) == << Lower(email) >>

\* ------------------------------------------------------------------ KeyPool
NoPool == [total |-> 0, exhausted |-> {}, current_idx |-> 0]

NewKeyPool(n) == [total |-> n, exhausted |-> {}, current_idx |-> 0]

active_count(p) == p.total - Cardinality(p.exhausted)

\* all_exhausted with > in place of >=.
all_exhaustedGt(p) == Cardinality(p.exhausted) > p.total

all_exhausted(p) == Cardinality(p.exhausted) >= p.total

\* _rotate with n iterations of its loop left.
RECURSIVE RotateLoop(_, _)
RotateLoop(p, n) ==
    IF n = 0 THEN [pool |-> p, ok |-> FALSE]
    ELSE LET q == [p EXCEPT !.current_idx = (p.current_idx + 1) % p.total]
         IN  IF q.current_idx \notin q.exhausted
             THEN [pool |-> q, ok |-> TRUE]
             ELSE RotateLoop(q, n - 1)

\* _rotate that reports success without moving.
_rotateStays(p) == [pool |-> p, ok |-> TRUE]

_rotate(p) == RotateLoop(p, p.total)

\* current_key without its test of the exhausted set.
current_keyUntested(p) == [pool |-> p, key |-> p.current_idx]

\* The current_key property: the pool it leaves and the index of the key it
\* returns (NoKey for None).
current_key(p) ==
    IF p.current_idx \in p.exhausted
    THEN LET r == _rotate(p)
         IN  IF r.ok THEN [pool |-> r.pool, key |-> r.pool.current_idx]
                     ELSE [pool |-> r.pool, key |-> NoKey]
    ELSE [pool |-> p, key |-> p.current_idx]

\* mark_exhausted that records key_num, the 1-based number it prints, in
\* place of the index.
mark_exhaustedKeyNum(p) ==
    LET q == [p EXCEPT !.exhausted = @ \cup {p.current_idx + 1}]
        r == IF all_exhausted(q) THEN [pool |-> q, ok |-> FALSE] ELSE _rotate(q)
    IN  [pool |-> r.pool, ok |-> r.ok, remaining |-> active_count(q)]

\* mark_exhausted that assigns the exhausted set instead of adding to it.
mark_exhaustedSwaps(p) ==
    LET q == [p EXCEPT !.exhausted = {p.current_idx}]
        r == IF all_exhausted(q) THEN [pool |-> q, ok |-> FALSE] ELSE _rotate(q)
    IN  [pool |-> r.pool, ok |-> r.ok, remaining |-> active_count(q)]

\* mark_exhausted that rotates and returns True whatever is left.
mark_exhaustedAlwaysTrue(p) ==
    LET q == [p EXCEPT !.exhausted = @ \cup {p.current_idx}]
    IN  [pool |-> _rotate(q).pool, ok |-> TRUE, remaining |-> active_count(q)]

\* mark_exhausted that rotates without recording the key.
mark_exhaustedForgets(p) ==
    LET r == IF all_exhausted(p) THEN [pool |-> p, ok |-> FALSE] ELSE _rotate(p)
    IN  [pool |-> r.pool, ok |-> r.ok, remaining |-> active_count(p)]

\* mark_exhausted: the pool it leaves, what it returns, and the count of
\* remaining keys it prints.
mark_exhausted(p) ==
    LET q == [p EXCEPT !.exhausted = @ \cup {p.current_idx}]
        r == IF all_exhausted(q) THEN [pool |-> q, ok |-> FALSE] ELSE _rotate(q)
    IN  [pool |-> r.pool, ok |-> r.ok, remaining |-> active_count(q)]

\* ------------------------------------------------------------ remote clients
\* EXHAUSTION_CODES of both clients.
EXHAUSTION_CODES == {429, 403}

\* The statuses the model's remote services answer with besides 200.
ErrorStatuses == {429, 403, 401, 500, 404}

\* The failover loop that takes only 429 for an exhausted key.
ExhaustsRateLimitOnly(status) == status = 429

\* The failover loop that gives up a key on every error status.
ExhaustsAny(status) == TRUE

\* The statuses on which the failover loop calls mark_exhausted.
Exhausts(status) == status \in EXHAUSTION_CODES \/ status = 401

\* -------------------------------------------------------------- SearchCache
\* Search identifiers f"{service}|{domain}|{category}".
SearchId(service, domain, category) == << service, domain, category >>

\* Position of a word in the lexicographic order of Python strings.
StrRank(s) ==
    CASE s = "accenture.com" -> 1
      [] s = "apollo_search" -> 2
      [] s = "broad"         -> 3
      [] s = "deloitte.com"  -> 4
      [] s = "hr"            -> 5
      [] s = "hunter"        -> 6
      [] s = "it"            -> 7
      [] s = "management"    -> 8
      [] s = "titles"        -> 9

IdLess(a, b) ==
    \/ StrRank(a[1]) < StrRank(b[1])
    \/ a[1] = b[1] /\ StrRank(a[2]) < StrRank(b[2])
    \/ a[1] = b[1] /\ a[2] = b[2] /\ StrRank(a[3]) < StrRank(b[3])

\* sorted(self._completed)
RECURSIVE sorted(_)
sorted(S) ==
    IF S = {} THEN << >>
    ELSE LET m == CHOOSE x \in S : \A y \in S \ {x} : IdLess(x, y)
         IN  << m >> \o sorted(S \ {m})

SeqToSet(s) == { s[i] : i \in 1..Len(s) }

\* The cache file: absent, a JSON document {"completed_searches": [...]},
\* or opened for writing and not yet written (empty: not a JSON document).
FileAbsent == [kind |-> "absent", ids |-> << >>]
FileTorn   == [kind |-> "torn", ids |-> << >>]
FileJson(ids) == [kind |-> "json", ids |-> ids]

\* Cache files the program did not write: text that is no JSON document, a
\* JSON document that is an array, and an object whose "completed_searches"
\* is a number.
FileText     == [kind |-> "text", ids |-> << >>]
FileArray    == [kind |-> "array", ids |-> << >>]
FileBadField == [kind |-> "badfield", ids |-> << >>]

\* _load ends in an exception its except clause does not name:
\* AttributeError of data.get on an array, TypeError of set() on a number.
_loadRaises(file) == file.kind \in {"array", "badfield"}

\* _load that never reads the file.
_loadNothing(file) == {}

\* SearchCache._load
_load(file) ==
    IF file.kind = "json" THEN SeqToSet(file.ids) ELSE {}

\* ------------------------------------------------------- remote vocabularies
\* Person dicts of an Apollo mixed_people/api_search response.
ApolloPeople ==
    { [first_name |-> "Jane", last_name |-> "Doe", title |-> "IT Recruiter",
       linkedin_url |-> "", email |-> ""],
      [first_name |-> "Jo", last_name |-> "Roe", title |-> "Recruiter",
       linkedin_url |-> "in/jo", email |-> "jd@acc.com"],
      [first_name |-> "", last_name |-> "", title |-> "Recruiter",
       linkedin_url |-> "", email |-> ""] }

\* The "person" of an Apollo people/match response; found = FALSE is the
\* empty dict.
NoPerson == [found |-> FALSE, email |-> "", linkedin_url |-> ""]

EnrichBodies ==
    { NoPerson,
      [found |-> TRUE, email |-> "jd@acc.com", linkedin_url |-> "in/jane"],
      [found |-> TRUE, email |-> "", linkedin_url |-> "in/jane"] }

\* Entries of data.emails of a Hunter domain-search response.
HunterEntries ==
    { [value |-> "JD@acc.com", first_name |-> "Ann", last_name |-> "Lee",
       position |-> "CIO", linkedin |-> "", phone_number |-> "", confidence |-> "90"],
      [value |-> "", first_name |-> "jane", last_name |-> "doe",
       position |-> "", linkedin |-> "", phone_number |-> "", confidence |-> "50"] }

\* Lists of at most n members of S.
ListsOf(S, n) == UNION { [1..k -> S] : k \in 0..n }

\* ------------------------------------------------------------- spreadsheet
Contact(consultancy, first, last, email, title, linkedin, phone, source, notes) ==
    [consultancy |-> consultancy, first_name |-> first, last_name |-> last,
     email |-> email, job_title |-> title, linkedin_url |-> linkedin,
     phone |-> phone, source |-> source, notes |-> notes]

\* One row of sheet 1 as write_excel fills it.
RowOf(c) ==
    << c.consultancy, c.first_name, c.last_name, c.email, c.job_title,
       c.linkedin_url, c.phone, c.source, c.notes >>

\* The output file: whether it exists, whether openpyxl can load it, whether
\* it holds the sheet "IT CS Recruiting Contacts", and the rows below the
\* header of that sheet (of the first sheet when it is missing).
NoWorkbook == [exists |-> FALSE, readable |-> FALSE, sheet |-> FALSE, rows |-> << >>]

\* write_excel: sheet "IT CS Recruiting Contacts", one row per contact.
write_excel(cs) ==
    [exists |-> TRUE, readable |-> TRUE, sheet |-> TRUE,
     rows |-> [i \in 1..Len(cs) |-> RowOf(cs[i])]]

\* The loader without .strip().
CellRaw(v) == v

\* str(v or "").strip()
Cell(v) == Strip(v)

\* The loader's loop over the rows from index i on, given what the earlier
\* rows produced.
RECURSIVE LoadRows(_, _, _)
LoadRows(rows, i, acc) ==
    IF i > Len(rows) THEN acc
    ELSE LET row == rows[i]
             consultancy == Cell(row[1])
             first_name  == Cell(row[2])
             last_name   == Cell(row[3])
             email       == Cell(row[4])
             c == Contact(consultancy, first_name, last_name, email, Cell(row[5]),
                          Cell(row[6]), Cell(row[7]), Cell(row[8]), Cell(row[9]))
             name_key == NameKey(first_name, last_name, consultancy)
         IN  IF row[1] = "" \/ consultancy = ""
                \/ (first_name = "" /\ last_name = "" /\ email = "")
             THEN LoadRows(rows, i + 1, acc)
             ELSE LoadRows(rows, i + 1,
                    [contacts |-> Append(acc.contacts, c),
                     seen     |-> acc.seen \cup {name_key}
                                   \cup (IF email # "" THEN {EmailKey(email)} ELSE {}),
                     enriched |-> acc.enriched
                                   \cup (IF email # "" THEN {name_key} ELSE {})])

NoPriorData == [contacts |-> << >>, seen |-> {}, enriched |-> {}]

\* A loader that reads the first sheet when the expected one is missing.
load_existing_contactsAnySheet(book) ==
    IF ~book.exists THEN NoPriorData
    ELSE IF ~book.readable THEN NoPriorData
    ELSE LoadRows(book.rows, 1, NoPriorData)

load_existing_contacts(book) ==
    IF ~book.exists THEN NoPriorData
    ELSE IF ~book.readable THEN NoPriorData
    ELSE IF ~book.sheet THEN NoPriorData
    ELSE LoadRows(book.rows, 1, NoPriorData)

\* ------------------------------------------------------ collect_contacts parts
\* The cache key of a query shape at a firm.
CacheKey(domain, sh) ==
    IF sh \in {"titles", "broad"} THEN SearchId("apollo_search", domain, sh)
    ELSE SearchId("hunter", domain, sh)

AllIds ==
    { CacheKey(CONSULTANCIES[f].domain, sh) :
        f \in 1..Len(CONSULTANCIES), sh \in {"titles", "broad", "it", "hr", "management"} }

\* is_done that answers no for every key.
is_doneNever(done, key) == FALSE

is_done(done, key) == key \in done

\* The Apollo merge loop without its duplicate test.
ApolloIsDupNever(person, name, seen_) == FALSE

\* name_key in seen, the Apollo duplicate test.
ApolloIsDup(person, name, seen_) ==
    NameKey(person.first_name, person.last_name, name) \in seen_

\* The merge loop without its seen.add(name_key).
ApolloSeenForgets(person, name, seen_) == seen_

\* seen.add(name_key)
ApolloSeen(person, name, seen_) ==
    seen_ \cup {NameKey(person.first_name, person.last_name, name)}

\* The enrichment branch entered whether or not --no-enrich was given.
WantsEnrichmentIgnoresFlag(person, enrich, pool) ==
    /\ person.email = ""
    /\ person.first_name # ""
    /\ person.last_name # ""
    /\ ~all_exhausted(pool)

\* The condition under which the enrichment branch is entered.
WantsEnrichment(person, enrich, pool) ==
    /\ enrich
    /\ person.email = ""
    /\ person.first_name # ""
    /\ person.last_name # ""
    /\ ~all_exhausted(pool)

\* The enrichment branch without its test of enriched.
AlreadyEnrichedNever(name_key, enriched_) == FALSE

\* name_key in enriched
AlreadyEnriched(name_key, enriched_) == name_key \in enriched_

\* email after the enrichment result was read.
EnrichedEmail(person, pd) == IF pd.found THEN pd.email ELSE person.email

\* linkedin after the enrichment result was read.
EnrichedLinkedin(person, pd) ==
    IF pd.found /\ person.linkedin_url = "" THEN pd.linkedin_url
    ELSE person.linkedin_url

\* The contact appended for an Apollo person.
ApolloContact(person, name, email, linkedin) ==
    Contact(name, person.first_name, person.last_name, email, person.title,
            linkedin, "", "Apollo.io", "")

\* dedup_key_email of process_hunter_emails.
DedupKeyEmail(entry) == IF entry.value # "" THEN Lower(entry.value) ELSE ""

\* The Hunter duplicate test on the name key alone.
HunterIsDupNameOnly(entry, name, seen_) ==
    NameKey(entry.first_name, entry.last_name, name) \in seen_

\* dedup_key_email in seen or name_key in seen
HunterIsDup(entry, name, seen_) ==
    \/ << DedupKeyEmail(entry) >> \in seen_
    \/ NameKey(entry.first_name, entry.last_name, name) \in seen_

\* process_hunter_emails without its seen.add(name_key).
HunterSeenEmailOnly(entry, name, seen_) ==
    seen_ \cup (IF DedupKeyEmail(entry) # "" THEN {<< DedupKeyEmail(entry) >>} ELSE {})

\* The two seen.add of process_hunter_emails.
HunterSeen(entry, name, seen_) ==
    seen_ \cup (IF DedupKeyEmail(entry) # "" THEN {<< DedupKeyEmail(entry) >>} ELSE {})
          \cup {NameKey(entry.first_name, entry.last_name, name)}

HunterEnriched(entry, name, enriched_) ==
    IF entry.value # ""
    THEN enriched_ \cup {NameKey(entry.first_name, entry.last_name, name)}
    ELSE enriched_

DeptLabel(sh) ==
    CASE sh = "it" -> "IT"
      [] sh = "hr" -> "HR/Recruiting"
      [] sh = "management" -> "Management"

\* f"Confidence: {confidence}%; Dept: {dept_label}"
Notes(confidence, dept_label) ==
    CASE confidence = "90" /\ dept_label = "IT" -> "Confidence: 90%; Dept: IT"
      [] confidence = "90" /\ dept_label = "HR/Recruiting" -> "Confidence: 90%; Dept: HR/Recruiting"
      [] confidence = "90" /\ dept_label = "Management" -> "Confidence: 90%; Dept: Management"
      [] confidence = "50" /\ dept_label = "IT" -> "Confidence: 50%; Dept: IT"
      [] confidence = "50" /\ dept_label = "HR/Recruiting" -> "Confidence: 50%; Dept: HR/Recruiting"
      [] confidence = "50" /\ dept_label = "Management" -> "Confidence: 50%; Dept: Management"

\* The contact appended for a Hunter entry.
HunterContact(entry, name, dept_label) ==
    Contact(name, entry.first_name, entry.last_name, entry.value, entry.position,
            entry.linkedin, entry.phone_number, "Hunter.io",
            Notes(entry.confidence, dept_label))

\* cache.mark_done without a guard.
MarksDoneAlways(sh, pool, found) == TRUE

\* The guard in front of cache.mark_done, per query shape.
MarksDone(sh, pool, found) ==
    IF sh = "broad" THEN ~all_exhausted(pool)
    ELSE ~all_exhausted(pool) \/ found # << >>

\* The persons of a response that pass the duplicate test when the merge loop
\* runs over the list from index i on: how many contacts it appends and the
\* seen set it leaves.
RECURSIVE MergeFrom(_, _, _, _, _)
MergeFrom(service, found, i, name, acc) ==
    IF i > Len(found) THEN acc
    ELSE IF service = "apollo"
         THEN IF ApolloIsDup(found[i], name, acc.seen)
              THEN MergeFrom(service, found, i + 1, name, acc)
              ELSE MergeFrom(service, found, i + 1, name,
                     [appended |-> acc.appended + 1,
                      seen |-> ApolloSeen(found[i], name, acc.seen)])
         ELSE IF HunterIsDup(found[i], name, acc.seen)
              THEN MergeFrom(service, found, i + 1, name, acc)
              ELSE MergeFrom(service, found, i + 1, name,
                     [appended |-> acc.appended + 1,
                      seen |-> HunterSeen(found[i], name, acc.seen)])

\* ---------------------------------------------------------------- state
VARIABLES
    env,             \* the credentials configured in .env, per service: how many
    firms,           \* the CONSULTANCIES list the script holds
    cache_file,      \* .search_cache.json on disk
    xlsx,            \* the output workbook on disk
    pc,              \* where the process is; "idle" when no process runs
    runs,            \* invocations of main so far
    fresh,           \* --fresh of the current run, or of one that died in SearchCache()
    enrich_apollo,   \* not --no-enrich
    hunter_it_only,  \* --it-only
    apollo_pool, hunter_pool,
    completed,       \* SearchCache._completed
    contacts, seen, enriched,
    firm,            \* index of the firm of the for loop
    svc,             \* "apollo" or "hunter": the client at work
    shape,           \* the query shape at work
    call,            \* "search" or "enrich": the caller of the failover loop
    people,          \* the persons of the current search response
    pidx,            \* index of the person the merge loop is at
    new_contacts, skipped_searches, skipped_enrichments,  \* the run's statistics
    responses,       \* HTTP responses delivered so far
    marked,          \* identifiers whose mark_done returned since the last clear()
    yield,           \* per identifier, the contacts its query appended
    paid,            \* identifiers answered with results in an earlier, finished run
    paid_now,        \* identifiers answered with results in this run
    marks,           \* mark_exhausted calls of this run, per service
    rejected,        \* key indices answered 429, 403 or 401 in this run, per service
    logged,          \* the remaining-keys count mark_exhausted printed last, per service
    sent,            \* key indices of the requests the failover call at work has sent
    resp,            \* what the last request came back with, until the caller reads it
    executed,        \* the search of the query at work was answered 2xx
    exit_code,       \* exit status of the last process that ended
    got,             \* the email of the person the last people/match answer carried, "" when none
    paused           \* time.sleep has run since the last request was sent, or none was sent yet

disk == << env, firms, cache_file, xlsx >>
config == << fresh, enrich_apollo, hunter_it_only >>
pools == << apollo_pool, hunter_pool >>
data == << contacts, seen, enriched >>
where == << firm, svc, shape >>
stats == << new_contacts, skipped_searches, skipped_enrichments >>
ghost == << marked, yield, paid, paid_now, marks, rejected, logged >>
trail == << sent, resp, executed, got, paused >>
vars == << env, firms, cache_file, xlsx, pc, runs, exit_code, sent, resp, executed, got, paused, logged, fresh, enrich_apollo, hunter_it_only,
           apollo_pool, hunter_pool, completed, contacts, seen, enriched,
           firm, svc, shape, call, people, pidx,
           new_contacts, skipped_searches, skipped_enrichments, responses,
           marked, yield, paid, paid_now, marks, rejected >>

NoYield == [id \in AllIds |-> {}]
NoMarks == [apollo |-> 0, hunter |-> 0]
NoRejected == [apollo |-> {}, hunter |-> {}]
NoLog == [apollo |-> -1, hunter |-> -1]

CurFirm == firms[firm]
CurId == CacheKey(CurFirm.domain, shape)
CurPool == IF svc = "apollo" THEN apollo_pool ELSE hunter_pool

SetPool(q) ==
    IF svc = "apollo" THEN apollo_pool' = q /\ UNCHANGED hunter_pool
    ELSE hunter_pool' = q /\ UNCHANGED apollo_pool

\* The memory of a process that is gone.
NoProcess ==
    /\ pc' = "idle"
    /\ fresh' = FALSE /\ enrich_apollo' = FALSE /\ hunter_it_only' = FALSE
    /\ apollo_pool' = NoPool /\ hunter_pool' = NoPool
    /\ completed' = {}
    /\ contacts' = << >> /\ seen' = {} /\ enriched' = {}
    /\ firm' = 1 /\ svc' = "apollo" /\ shape' = "titles"
    /\ call' = "search" /\ people' = << >> /\ pidx' = 1
    /\ new_contacts' = 0 /\ skipped_searches' = 0 /\ skipped_enrichments' = 0
    /\ marks' = NoMarks /\ rejected' = NoRejected /\ logged' = NoLog
    /\ sent' = << >> /\ resp' = NoResponse /\ executed' = FALSE /\ got' = "" /\ paused' = TRUE

\* The lists of credentials a behaviour may be configured with; they stay as
\* they are from run to run.
KeyLists == [apollo : 0..MaxKeys, hunter : 0..MaxKeys]

\* A process has not started, or has just started.
FreshTrail ==
    /\ sent = << >> /\ resp = NoResponse /\ executed = FALSE /\ got = "" /\ paused = TRUE
    /\ logged = NoLog

Init ==
    /\ env \in KeyLists
    /\ firms = SubSeq(CONSULTANCIES, 1, 1)
    /\ FreshTrail /\ exit_code = NoExit
    /\ cache_file = FileAbsent
    /\ xlsx = NoWorkbook
    /\ pc = "idle"
    /\ runs = 0
    /\ fresh = FALSE /\ enrich_apollo = FALSE /\ hunter_it_only = FALSE
    /\ apollo_pool = NoPool /\ hunter_pool = NoPool
    /\ completed = {}
    /\ contacts = << >> /\ seen = {} /\ enriched = {}
    /\ firm = 1 /\ svc = "apollo" /\ shape = "titles"
    /\ call = "search" /\ people = << >> /\ pidx = 1
    /\ new_contacts = 0 /\ skipped_searches = 0 /\ skipped_enrichments = 0
    /\ responses = 0
    /\ marked = {} /\ yield = NoYield /\ paid = {} /\ paid_now = {}
    /\ marks = NoMarks /\ rejected = NoRejected

\* ------------------------------------------------------------ control flow
Pos(p, f, sv, sh) == [pc |-> p, firm |-> f, svc |-> sv, shape |-> sh]

GoTo(pos) ==
    /\ pc' = pos.pc
    /\ firm' = pos.firm
    /\ svc' = pos.svc
    /\ shape' = pos.shape

\* After the Hunter block of a firm: the next firm of the for loop, or the
\* return of collect_contacts.
AfterHunter ==
    IF firm < Len(firms) THEN Pos("block", firm + 1, "apollo", "titles")
    ELSE Pos("returned", firm, "hunter", "management")

\* Where control goes when the block of a service is not entered.
AfterBlock ==
    IF svc = "apollo" THEN Pos("block", firm, "hunter", "it") ELSE AfterHunter

\* Where control goes after the code of a query shape.
AfterShape ==
    CASE shape = "titles"     -> Pos("check", firm, "apollo", "broad")
      [] shape = "broad"      -> Pos("block", firm, "hunter", "it")
      [] shape = "it"         -> Pos("check", firm, "hunter", "hr")
      [] shape = "hr"         -> Pos("check", firm, "hunter", "management")
      [] shape = "management" -> AfterHunter

\* --it-only that leaves out the management query alone.
ItOnlySkipManagement == shape = "management" /\ hunter_it_only

\* if not hunter_it_only, in front of the hr and the management query.
ItOnlySkip == shape \in {"hr", "management"} /\ hunter_it_only

\* ------------------------------------------------------------------- main
\* main up to the call of collect_contacts, with at least one credential.
StartRun(en, it, fr) ==
    /\ pc = "idle"
    /\ runs < MaxRuns
    /\ env.apollo + env.hunter > 0
    /\ runs' = runs + 1
    /\ apollo_pool' = (IF env.apollo > 0 THEN NewKeyPool(env.apollo) ELSE NoPool)
    /\ hunter_pool' = (IF env.hunter > 0 THEN NewKeyPool(env.hunter) ELSE NoPool)
    /\ fresh' = fr /\ enrich_apollo' = en /\ hunter_it_only' = it
    /\ IF fr
       THEN /\ completed' = {}
            /\ cache_file' = FileAbsent
            /\ contacts' = << >> /\ seen' = {} /\ enriched' = {}
            /\ marked' = {} /\ yield' = NoYield /\ paid' = {}
       ELSE LET prior == load_existing_contacts(xlsx)
            IN  /\ completed' = _load(cache_file)
                /\ contacts' = prior.contacts
                /\ seen' = prior.seen
                /\ enriched' = prior.enriched
                /\ UNCHANGED << cache_file, marked, yield, paid >>
    /\ GoTo(Pos("block", 1, "apollo", "titles"))
    /\ call' = "search" /\ people' = << >> /\ pidx' = 1
    /\ new_contacts' = 0 /\ skipped_searches' = 0 /\ skipped_enrichments' = 0
    /\ paid_now' = {} /\ marks' = NoMarks /\ rejected' = NoRejected
    /\ UNCHANGED << env, firms, xlsx, responses >>
    /\ logged' = NoLog /\ sent' = << >> /\ resp' = NoResponse /\ executed' = FALSE /\ got' = "" /\ paused' = TRUE
    /\ exit_code' = NoExit
    /\ ~_loadRaises(cache_file)

\* main constructs SearchCache before it looks at --fresh; an exception of
\* _load that nothing catches ends the process with a traceback. fresh keeps
\* the flag the process was started with.
CrashOnLoad(fr) ==
    /\ pc = "idle"
    /\ runs < MaxRuns
    /\ env.apollo + env.hunter > 0
    /\ _loadRaises(cache_file)
    /\ runs' = runs + 1
    /\ exit_code' = 1
    /\ fresh' = fr
    /\ UNCHANGED << stats, disk, pc, enrich_apollo, hunter_it_only, pools, completed, data,
                    where, call, people, pidx, responses, ghost, trail >>

\* A main that honours --fresh before it tests for credentials.
ExitNoKeysClears(fr) ==
    /\ pc = "idle"
    /\ runs < MaxRuns
    /\ env.apollo + env.hunter = 0
    /\ runs' = runs + 1
    /\ exit_code' = 1
    /\ cache_file' = (IF fr THEN FileAbsent ELSE cache_file)
    /\ UNCHANGED << stats, env, firms, xlsx, pc, config, pools, completed, data, where,
                    call, people, pidx, responses, ghost, trail >>

\* main without any credential: sys.exit(1), whatever the flags.
ExitNoKeys(fr) ==
    /\ pc = "idle"
    /\ runs < MaxRuns
    /\ env.apollo + env.hunter = 0
    /\ runs' = runs + 1
    /\ exit_code' = 1
    /\ UNCHANGED << stats, disk, pc, config, pools, completed, data, where, call, people,
                    pidx, responses, ghost, trail >>

\* ------------------------------------------------------- collect_contacts
\* if apollo and not apollo.pool.all_exhausted / the same for hunter: taken.
EnterBlock ==
    /\ pc = "block"
    /\ CurPool.total > 0 /\ ~all_exhausted(CurPool)
    /\ pc' = "check"
    /\ UNCHANGED << stats, disk, runs, exit_code, config, pools, completed, data, where, call, people,
                    pidx, responses, ghost >>
    /\ UNCHANGED trail

\* The same test, not taken: the service is skipped for this firm.
SkipBlock ==
    /\ pc = "block"
    /\ ~(CurPool.total > 0 /\ ~all_exhausted(CurPool))
    /\ GoTo(AfterBlock)
    /\ UNCHANGED << stats, disk, runs, exit_code, config, pools, completed, data, call, people,
                    pidx, responses, ghost >>
    /\ UNCHANGED trail

\* cache.is_done(cache_key): CACHED (skipping).
CheckCached ==
    /\ pc = "check"
    /\ ~ItOnlySkip
    /\ is_done(completed, CurId)
    /\ skipped_searches' = skipped_searches + 1
    /\ GoTo(AfterShape)
    /\ UNCHANGED << new_contacts, skipped_enrichments, disk, runs, exit_code, config, pools, completed, data, call, people,
                    pidx, responses, ghost >>
    /\ UNCHANGED trail

\* Neither cached nor queried: --it-only, or the elif not all_exhausted fails.
CheckSkipped ==
    /\ pc = "check"
    /\ \/ ItOnlySkip
       \/ /\ ~is_done(completed, CurId)
          /\ shape \in {"broad", "hr", "management"}
          /\ all_exhausted(CurPool)
    /\ GoTo(AfterShape)
    /\ UNCHANGED << stats, disk, runs, exit_code, config, pools, completed, data, call, people,
                    pidx, responses, ghost >>
    /\ UNCHANGED trail

\* The query is issued: search_people / domain_search enters the failover loop.
CheckSearch ==
    /\ pc = "check"
    /\ ~ItOnlySkip
    /\ ~is_done(completed, CurId)
    /\ shape \in {"titles", "it"} \/ ~all_exhausted(CurPool)
    /\ pc' = "failover"
    /\ call' = "search" /\ people' = << >> /\ pidx' = 1
    /\ yield' = [yield EXCEPT ![CurId] = {}]
    /\ UNCHANGED << stats, disk, runs, exit_code, config, pools, completed, data, where, responses,
                    marked, paid, paid_now, marks, rejected >>
    /\ sent' = << >> /\ resp' = NoResponse /\ executed' = FALSE /\ UNCHANGED logged /\ got' = "" /\ UNCHANGED paused

\* ------------------------------------------------- _request_with_failover
\* The search call returns: people / emails of the result.
ReturnSearch(found) ==
    /\ pc' = "people"
    /\ people' = found
    /\ pidx' = 1
    /\ UNCHANGED << call, contacts, enriched, yield, new_contacts >>

\* The rest of the person's loop body with contacts.insert(0, ...) in place
\* of contacts.append(...).
ReturnEnrichPrepends(pd) ==
    LET person == people[pidx]
        name_key == NameKey(person.first_name, person.last_name, CurFirm.name)
        email == EnrichedEmail(person, pd)
        c == ApolloContact(person, CurFirm.name, email, EnrichedLinkedin(person, pd))
    IN  /\ pc' = "people"
        /\ call' = "search"
        /\ pidx' = pidx + 1
        /\ contacts' = << c >> \o contacts
        /\ new_contacts' = new_contacts + 1
        /\ enriched' = (IF pd.found /\ email # "" THEN enriched \cup {name_key}
                        ELSE enriched)
        /\ yield' = [yield EXCEPT ![CurId] = @ \cup {c}]
        /\ UNCHANGED people

\* enrich_person returns: the rest of the person's loop body.
ReturnEnrich(pd) ==
    LET person == people[pidx]
        name_key == NameKey(person.first_name, person.last_name, CurFirm.name)
        email == EnrichedEmail(person, pd)
        c == ApolloContact(person, CurFirm.name, email, EnrichedLinkedin(person, pd))
    IN  /\ pc' = "people"
        /\ call' = "search"
        /\ pidx' = pidx + 1
        /\ contacts' = Append(contacts, c)
        /\ new_contacts' = new_contacts + 1
        /\ enriched' = (IF pd.found /\ email # "" THEN enriched \cup {name_key}
                        ELSE enriched)
        /\ yield' = [yield EXCEPT ![CurId] = @ \cup {c}]
        /\ UNCHANGED people

Return(found, pd) ==
    IF call = "search" THEN ReturnSearch(found) ELSE ReturnEnrich(pd)

\* The head of the while loop up to the request being sent.
Failover ==
    /\ pc = "failover"
    /\ IF all_exhausted(CurPool)
       THEN Return(<< >>, NoPerson) /\ UNCHANGED pools
       ELSE LET ck == current_key(CurPool)
            IN  /\ SetPool(ck.pool)
                /\ IF ck.key = NoKey
                   THEN Return(<< >>, NoPerson)
                   ELSE /\ pc' = "await"
                        /\ UNCHANGED << call, people, pidx, contacts, enriched, yield,
                                        new_contacts >>
    /\ UNCHANGED << skipped_searches, skipped_enrichments, disk, runs, exit_code, config, completed, seen, where, responses,
                    marked, paid, paid_now, marks, rejected >>
    /\ resp' = NoResponse /\ got' = ""
    /\ paused' = (IF pc' = "await" THEN FALSE ELSE paused \/ call = "enrich")
    /\ sent' = (IF pc' = "await" THEN Append(sent, CurPool'.current_idx) ELSE sent)
    /\ UNCHANGED << executed, logged >>

\* status 429, 403 or 401: mark_exhausted, then retry or give up.
RespondExhausted(status) ==
    /\ pc = "await"
    /\ Exhausts(status)
    /\ responses < MaxResponses
    /\ responses' = Delivered(responses)
    /\ LET m == mark_exhausted(CurPool)
       IN  /\ SetPool(m.pool)
           /\ IF m.ok
              THEN /\ pc' = "failover"
                   /\ UNCHANGED << call, people, pidx, contacts, enriched, yield,
                                        new_contacts >>
              ELSE Return(<< >>, NoPerson)
    /\ marks' = [marks EXCEPT ![svc] = @ + 1]
    /\ rejected' = [rejected EXCEPT ![svc] = @ \cup {sent[Len(sent)]}]
    /\ UNCHANGED << skipped_searches, skipped_enrichments, disk, runs, exit_code, config, completed, seen, where,
                    marked, paid, paid_now >>
    /\ logged' = [logged EXCEPT ![svc] = mark_exhausted(CurPool).remaining]
    /\ resp' = status /\ got' = ""
    /\ paused' = (IF mark_exhausted(CurPool).ok THEN status \in EXHAUSTION_CODES
                   ELSE call = "enrich")
    /\ UNCHANGED << sent, executed >>

\* Any other status that raise_for_status rejects.
RespondError(status) ==
    /\ pc = "await"
    /\ ~Exhausts(status)
    /\ responses < MaxResponses
    /\ responses' = Delivered(responses)
    /\ Return(<< >>, NoPerson)
    /\ UNCHANGED << skipped_searches, skipped_enrichments, disk, runs, exit_code, config, pools, completed, seen, where,
                    marked, paid, paid_now, marks, rejected >>
    /\ resp' = status /\ got' = ""
    /\ paused' = (call = "enrich")
    /\ UNCHANGED << sent, executed, logged >>

\* requests.exceptions.RequestException: no response at all.
NetworkFailure ==
    /\ pc = "await"
    /\ Return(<< >>, NoPerson)
    /\ UNCHANGED << skipped_searches, skipped_enrichments, disk, runs, exit_code, config, pools, completed, seen, where, responses,
                    marked, paid, paid_now, marks, rejected >>
    /\ resp' = NetworkError /\ got' = ""
    /\ paused' = (call = "enrich")
    /\ UNCHANGED << sent, executed, logged >>

\* 2xx on a search: resp.json().
RespondSearchOk(found) ==
    /\ pc = "await"
    /\ call = "search"
    /\ responses < MaxResponses
    /\ responses' = Delivered(responses)
    /\ ReturnSearch(found)
    /\ paid_now' = (IF found # << >> THEN paid_now \cup {CurId} ELSE paid_now)
    /\ UNCHANGED << skipped_searches, skipped_enrichments, disk, runs, exit_code, config, pools, completed, seen, where,
                    marked, paid, marks, rejected >>
    /\ resp' = 200 /\ executed' = TRUE /\ got' = ""
    /\ paused' = (call = "enrich")
    /\ UNCHANGED << sent, logged >>

\* 2xx on people/match.
RespondEnrichOk(pd) ==
    /\ pc = "await"
    /\ call = "enrich"
    /\ responses < MaxResponses
    /\ responses' = Delivered(responses)
    /\ ReturnEnrich(pd)
    /\ UNCHANGED << skipped_searches, skipped_enrichments, disk, runs, exit_code, config, pools, completed, seen, where,
                    marked, paid, paid_now, marks, rejected >>
    /\ resp' = 200
    /\ got' = (IF pd.found THEN pd.email ELSE "")
    /\ paused' = (call = "enrich")
    /\ UNCHANGED << sent, executed, logged >>

\* ------------------------------------------------------- the merge loops
\* One iteration of for person in people (both Apollo query shapes).
ApolloPerson ==
    /\ pc = "people"
    /\ svc = "apollo"
    /\ pidx <= Len(people)
    /\ LET person == people[pidx]
           name == CurFirm.name
           name_key == NameKey(person.first_name, person.last_name, name)
           c == ApolloContact(person, name, person.email, person.linkedin_url)
           wants == WantsEnrichment(person, enrich_apollo, apollo_pool)
           has == AlreadyEnriched(name_key, enriched)
       IN  IF ApolloIsDup(person, name, seen)
           THEN /\ pidx' = pidx + 1
                /\ UNCHANGED << pc, call, contacts, seen, yield, new_contacts,
                                skipped_enrichments >>
           ELSE /\ seen' = ApolloSeen(person, name, seen)
                /\ IF wants /\ ~has
                   THEN /\ pc' = "failover"
                        /\ call' = "enrich"
                        /\ UNCHANGED << pidx, contacts, yield, new_contacts,
                                        skipped_enrichments >>
                   ELSE /\ skipped_enrichments' =
                              (IF wants THEN skipped_enrichments + 1
                               ELSE skipped_enrichments)
                        /\ contacts' = Append(contacts, c)
                        /\ new_contacts' = new_contacts + 1
                        /\ yield' = [yield EXCEPT ![CurId] = @ \cup {c}]
                        /\ pidx' = pidx + 1
                        /\ UNCHANGED << pc, call >>
    /\ UNCHANGED << skipped_searches, disk, runs, exit_code, config, pools, completed, enriched,
                    where, people, responses, marked, paid, paid_now, marks, rejected >>
    /\ sent' = << >> /\ resp' = NoResponse /\ got' = "" /\ UNCHANGED paused
    /\ UNCHANGED << executed, logged >>

\* One iteration of for entry in emails_list of process_hunter_emails.
HunterEntry ==
    /\ pc = "people"
    /\ svc = "hunter"
    /\ pidx <= Len(people)
    /\ LET entry == people[pidx]
           name == CurFirm.name
           c == HunterContact(entry, name, DeptLabel(shape))
       IN  IF HunterIsDup(entry, name, seen)
           THEN UNCHANGED << contacts, seen, enriched, yield, new_contacts >>
           ELSE /\ seen' = HunterSeen(entry, name, seen)
                /\ enriched' = HunterEnriched(entry, name, enriched)
                /\ contacts' = Append(contacts, c)
                /\ new_contacts' = new_contacts + 1
                /\ yield' = [yield EXCEPT ![CurId] = @ \cup {c}]
    /\ pidx' = pidx + 1
    /\ UNCHANGED << skipped_searches, skipped_enrichments, disk, pc, runs, exit_code, config,
                    pools, completed, where, call, people, responses, marked, paid,
                    paid_now, marks, rejected >>
    /\ sent' = << >> /\ resp' = NoResponse /\ got' = "" /\ UNCHANGED paused
    /\ UNCHANGED << executed, logged >>

\* The loop is over and the guard lets cache.mark_done run: the identifier is
\* added and save() has opened the cache file for writing.
MarkDone ==
    /\ pc = "people"
    /\ pidx > Len(people)
    /\ MarksDone(shape, CurPool, people)
    /\ completed' = completed \cup {CurId}
    /\ cache_file' = FileTorn
    /\ pc' = "saving"
    /\ UNCHANGED << stats, env, firms, xlsx, runs, exit_code, config, pools, data, where, call, people, pidx,
                    responses, ghost >>
    /\ sent' = << >> /\ resp' = NoResponse /\ got' = "" /\ UNCHANGED paused
    /\ UNCHANGED executed

\* save() writes the sorted list and closes the file; mark_done returns.
SaveWrite ==
    /\ pc = "saving"
    /\ cache_file' = FileJson(sorted(completed))
    /\ marked' = marked \cup {CurId}
    /\ pc' = "pause"
    /\ UNCHANGED << stats, env, firms, xlsx, runs, exit_code, config, pools, completed, data, where, call,
                    people, pidx, responses, yield, paid, paid_now, marks, rejected >>
    /\ UNCHANGED << trail, logged >>

\* The loop is over and the guard keeps the identifier unmarked.
NotMarked ==
    /\ pc = "people"
    /\ pidx > Len(people)
    /\ ~MarksDone(shape, CurPool, people)
    /\ pc' = "pause"
    /\ UNCHANGED << stats, disk, runs, exit_code, config, pools, completed, data, where, call, people,
                    pidx, responses, ghost >>
    /\ sent' = << >> /\ resp' = NoResponse /\ got' = "" /\ UNCHANGED paused
    /\ UNCHANGED executed

\* time.sleep(RATE_LIMIT_DELAY) at the end of a query, then the next shape.
Pause ==
    /\ pc = "pause"
    /\ GoTo(AfterShape)
    /\ people' = << >> /\ pidx' = 1
    /\ UNCHANGED << stats, disk, runs, exit_code, config, pools, completed, data, call, responses,
                    ghost >>
    /\ executed' = FALSE
    /\ UNCHANGED << sent, resp, got >>
    /\ paused' = TRUE

\* main after collect_contacts returned: write_excel when there are contacts;
\* the process ends.
Finish ==
    /\ pc = "returned"
    /\ xlsx' = (IF contacts # << >> THEN write_excel(contacts) ELSE xlsx)
    /\ paid' = paid \cup paid_now
    /\ paid_now' = {}
    /\ NoProcess
    /\ UNCHANGED << env, firms, cache_file, runs, responses, marked, yield >>
    /\ exit_code' = 0

\* The process is killed anywhere but inside save().
Kill ==
    /\ pc \notin {"idle", "saving"}
    /\ NoProcess
    /\ paid_now' = {}
    /\ UNCHANGED << disk, runs, responses, marked, yield, paid >>
    /\ exit_code' = Killed

\* The process is killed between save()'s open(..., "w") and the write.
KillMidSave ==
    /\ pc = "saving"
    /\ NoProcess
    /\ paid_now' = {}
    /\ UNCHANGED << disk, runs, responses, marked, yield, paid >>
    /\ exit_code' = Killed

\* ----------------------------------------------------------- specifications
\* The steps of collect_contacts and of the calls it makes.
Collect ==
    \/ EnterBlock
    \/ SkipBlock
    \/ CheckCached
    \/ CheckSkipped
    \/ CheckSearch
    \/ Failover
    \/ \E status \in ErrorStatuses : RespondExhausted(status)
    \/ \E status \in ErrorStatuses : RespondError(status)
    \/ NetworkFailure
    \/ \E found \in ListsOf(IF svc = "apollo" THEN ApolloPeople ELSE HunterEntries,
                            MaxPeople) : RespondSearchOk(found)
    \/ \E pd \in EnrichBodies : RespondEnrichOk(pd)
    \/ ApolloPerson
    \/ HunterEntry
    \/ MarkDone
    \/ SaveWrite
    \/ NotMarked
    \/ Pause

Step ==
    \/ \E en \in BOOLEAN, it \in BOOLEAN, fr \in BOOLEAN : StartRun(en, it, fr)
    \/ \E fr \in BOOLEAN : ExitNoKeys(fr)
    \/ Collect
    \/ Finish
    \/ Kill

\* Every step of the program, kills in the middle of save() included.
Next == Step \/ KillMidSave

Spec == Init /\ [][Next]_vars

\* The same program when no kill falls inside save().
SpecRestart == Init /\ [][Step]_vars

\* collect_contacts called on its own: its parameters existing_contacts, seen,
\* enriched and cache are whatever the caller passes.
JaneKey == NameKey("Jane", "Doe", "Accenture")

InitCollect ==
    /\ env \in KeyLists
    /\ firms = SubSeq(CONSULTANCIES, 1, 1)
    /\ FreshTrail /\ exit_code = NoExit
    /\ xlsx = NoWorkbook
    /\ pc = "block"
    /\ runs = 1
    /\ fresh = FALSE
    /\ enrich_apollo \in BOOLEAN
    /\ hunter_it_only \in BOOLEAN
    /\ apollo_pool = (IF env.apollo > 0 THEN NewKeyPool(env.apollo) ELSE NoPool)
    /\ hunter_pool = (IF env.hunter > 0 THEN NewKeyPool(env.hunter) ELSE NoPool)
    /\ completed \in { {}, {CacheKey("accenture.com", "broad")} }
    /\ cache_file = (IF completed = {} THEN FileAbsent ELSE FileJson(sorted(completed)))
    /\ contacts = << >>
    /\ seen \in SUBSET {JaneKey}
    /\ enriched \in SUBSET {JaneKey}
    /\ firm = 1 /\ svc = "apollo" /\ shape = "titles"
    /\ call = "search" /\ people = << >> /\ pidx = 1
    /\ new_contacts = 0 /\ skipped_searches = 0 /\ skipped_enrichments = 0
    /\ responses = 0
    /\ marked = completed /\ yield = NoYield /\ paid = {} /\ paid_now = {}
    /\ marks = NoMarks /\ rejected = NoRejected

SpecCollect == InitCollect /\ [][Collect]_vars

\* collect_contacts as a sequential program: its next step is always taken;
\* every request ends (timeout=30) and every sleep is finite.
SpecLive == InitCollect /\ [][Collect]_vars /\ WF_vars(Collect)

\* collect_contacts called with enrichment enabled, nothing loaded and one query
\* cached, with remote services that answer every request it sends, however
\* many; its next step is always taken.
InitAnswered ==
    /\ env \in KeyLists
    /\ firms = SubSeq(CONSULTANCIES, 1, 1)
    /\ FreshTrail /\ exit_code = NoExit
    /\ xlsx = NoWorkbook
    /\ pc = "block"
    /\ runs = 1
    /\ fresh = FALSE
    /\ enrich_apollo = TRUE
    /\ hunter_it_only = FALSE
    /\ apollo_pool = (IF env.apollo > 0 THEN NewKeyPool(env.apollo) ELSE NoPool)
    /\ hunter_pool = (IF env.hunter > 0 THEN NewKeyPool(env.hunter) ELSE NoPool)
    /\ completed = {CacheKey("accenture.com", "broad")}
    /\ cache_file = FileJson(sorted(completed))
    /\ contacts = << >> /\ seen = {} /\ enriched = {}
    /\ firm = 1 /\ svc = "apollo" /\ shape = "titles"
    /\ call = "search" /\ people = << >> /\ pidx = 1
    /\ new_contacts = 0 /\ skipped_searches = 0 /\ skipped_enrichments = 0
    /\ responses = Unmetered
    /\ marked = completed /\ yield = NoYield /\ paid = {} /\ paid_now = {}
    /\ marks = NoMarks /\ rejected = NoRejected

SpecAnswered == InitAnswered /\ [][Collect]_vars /\ WF_vars(Collect)

\* collect_contacts over two firms, with at most one credential per service.
SmallKeyLists == [apollo : 0..1, hunter : 0..1]

InitFirms ==
    /\ env \in SmallKeyLists
    /\ firms = CONSULTANCIES
    /\ FreshTrail /\ exit_code = NoExit
    /\ xlsx = NoWorkbook
    /\ pc = "block"
    /\ runs = 1
    /\ fresh = FALSE
    /\ enrich_apollo \in BOOLEAN
    /\ hunter_it_only \in BOOLEAN
    /\ apollo_pool = (IF env.apollo > 0 THEN NewKeyPool(env.apollo) ELSE NoPool)
    /\ hunter_pool = (IF env.hunter > 0 THEN NewKeyPool(env.hunter) ELSE NoPool)
    /\ completed \in { {}, {CacheKey("deloitte.com", "it")} }
    /\ cache_file = (IF completed = {} THEN FileAbsent ELSE FileJson(sorted(completed)))
    /\ contacts = << >> /\ seen = {} /\ enriched = {}
    /\ firm = 1 /\ svc = "apollo" /\ shape = "titles"
    /\ call = "search" /\ people = << >> /\ pidx = 1
    /\ new_contacts = 0 /\ skipped_searches = 0 /\ skipped_enrichments = 0
    /\ responses = 0
    /\ marked = completed /\ yield = NoYield /\ paid = {} /\ paid_now = {}
    /\ marks = NoMarks /\ rejected = NoRejected

SpecFirms == InitFirms /\ [][Collect]_vars

\* main started on files an earlier session, another program or an editor
\* left behind.
PriorContact ==
    Contact("Accenture", "Jane", "Doe", "jd@acc.com", "IT Recruiter", "", "",
            "Apollo.io", "")

\* Rows of a sheet somebody edited by hand: a contact with a trailing blank
\* in the first name and capitals in the email, a row without organization,
\* a row with a blank organization, a row with nothing but the organization
\* and a job title, a row identified by its email alone, and a contact
\* without email.
EditedRows ==
    << << "Accenture", "Jane ", "Doe", "JD@acc.com", "IT Recruiter", "", "", "Apollo.io", "" >>,
       << "", "Jo", "Roe", "jd@acc.com", "Recruiter", "", "", "Apollo.io", "" >>,
       << " ", "Ann", "Lee", "", "CIO", "", "", "Hunter.io", "" >>,
       << "Accenture", "", " ", "", "Recruiter", "", "", "Apollo.io", "" >>,
       << "Deloitte", "", "", "jd@acc.com", "", "", "", "Hunter.io", "" >>,
       << "Accenture", "Jo", "Roe", "", "Recruiter", "in/jo", "", "Apollo.io", "" >> >>

Books ==
    { NoWorkbook,
      write_excel(<< PriorContact >>),
      [exists |-> TRUE, readable |-> TRUE, sheet |-> TRUE, rows |-> EditedRows],
      [exists |-> TRUE, readable |-> FALSE, sheet |-> FALSE,
       rows |-> << RowOf(PriorContact) >>],
      [exists |-> TRUE, readable |-> TRUE, sheet |-> FALSE,
       rows |-> << RowOf(PriorContact) >>] }

CacheFiles ==
    { FileAbsent, FileText, FileArray, FileBadField,
      FileJson(<< CacheKey("accenture.com", "titles") >>) }

InitStorage ==
    /\ env \in SmallKeyLists
    /\ firms = SubSeq(CONSULTANCIES, 1, 1)
    /\ FreshTrail /\ exit_code = NoExit
    /\ cache_file \in CacheFiles
    /\ xlsx \in Books
    /\ pc = "idle"
    /\ runs = 0
    /\ fresh = FALSE /\ enrich_apollo = FALSE /\ hunter_it_only = FALSE
    /\ apollo_pool = NoPool /\ hunter_pool = NoPool
    /\ completed = {}
    /\ contacts = << >> /\ seen = {} /\ enriched = {}
    /\ firm = 1 /\ svc = "apollo" /\ shape = "titles"
    /\ call = "search" /\ people = << >> /\ pidx = 1
    /\ new_contacts = 0 /\ skipped_searches = 0 /\ skipped_enrichments = 0
    /\ responses = 0
    /\ marked = _load(cache_file) /\ yield = NoYield /\ paid = {} /\ paid_now = {}
    /\ marks = NoMarks /\ rejected = NoRejected

StepStorage == Step \/ \E fr \in BOOLEAN : CrashOnLoad(fr)

SpecStorage == InitStorage /\ [][StepStorage]_vars

\* ------------------------------------------------------------------ claims

\* The query at work has ended without a person while its pool is exhausted.
ExhaustedEmpty == people = << >> /\ all_exhausted(CurPool)

\* C1: a step of a running process that adds a search identifier to the
\* cache is never taken by a query whose pool is fully exhausted and whose
\* search returned no person: such a query leaves its identifier unmarked.
C1_ExhaustedQueryNotMarked ==
    [][ \A id \in AllIds :
          (pc # "idle" /\ id \notin completed /\ id \in completed')
             => (id = CurId /\ ~ExhaustedEmpty) ]_vars

\* C1 witness: a query has passed its mark_done guard with an exhausted pool
\* and no person, and its identifier is not in the cache.
C1_Witness ==
    /\ pc = "pause"
    /\ ExhaustedEmpty
    /\ CurId \notin completed

\* C2: when the cache check of a query finds its identifier done, the next
\* step of the process leaves the query (control is at a later shape, block
\* or the return) without entering the failover loop, and contacts, seen,
\* enriched, both key pools, the cache and the count of HTTP responses are
\* what they were.
C2_CachedQueryDoesNothing ==
    [][ (pc = "check" /\ CurId \in completed /\ pc' # "idle")
          => /\ pc' \in {"check", "block", "returned"}
             /\ << firm', svc', shape', pc' >> # << firm, svc, shape, pc >>
             /\ UNCHANGED << contacts, seen, enriched, apollo_pool, hunter_pool,
                             completed, cache_file, responses >> ]_vars

\* C2 witness: a run that loaded contacts has skipped a cached query.
C2_Witness ==
    /\ pc # "idle"
    /\ skipped_searches > 0
    /\ contacts # << >>
    /\ ~all_exhausted(CurPool)

\* C3: no search request is ever in flight for a query that an earlier,
\* finished run of the same non-fresh sequence saw answered with results.
C3_PaidQueryNeverRepeated ==
    ~(pc = "await" /\ call = "search" /\ CurId \in paid)

C5_CrashLosesOnlyInFlight ==
    (pc = "block" /\ firm = 1 /\ svc = "apollo" /\ ~fresh)
       => marked \subseteq completed

\* C6: when a non-fresh run finds a query's identifier done and skips it,
\* every contact that query appended is in the run's contact list.
C6_SkippedQueryContactsPresent ==
    (pc = "check" /\ ~fresh /\ is_done(completed, CurId))
       => yield[CurId] \subseteq SeqToSet(contacts)

\* The name key of a contact of the list.
ContactKey(c) == NameKey(c.first_name, c.last_name, c.consultancy)

\* No two entries share a name key or a non-empty lower-cased email.
NoSharedKey(cs) ==
    \A i \in 1..Len(cs), j \in 1..Len(cs) :
        i < j => /\ ContactKey(cs[i]) # ContactKey(cs[j])
                 /\ (cs[i].email # "" /\ cs[j].email # "")
                       => Lower(cs[i].email) # Lower(cs[j].email)

\* C7: the list collect_contacts returns holds no two entries with the same
\* name key and no two with the same non-empty lower-cased email.
C7_NoSharedSeenKey ==
    pc = "returned" => NoSharedKey(contacts)

\* The merge loop of the query at work, run once more over the response it
\* has just processed, from the seen set it left.
MergedAgain ==
    MergeFrom(svc, people, 1, CurFirm.name, [appended |-> 0, seen |-> seen])

\* The merge loop of the query at work has run over all of its response.
MergeOver == pc \in {"saving", "pause"} \/ (pc = "people" /\ pidx > Len(people))

\* C8: once the merge loop has processed a response, processing the same
\* response again appends no contact and leaves seen as it is.
C8_MergeIdempotent ==
    MergeOver => (MergedAgain.appended = 0 /\ MergedAgain.seen = seen)

\* C8 witness: the merge loop has appended a contact of the response.
C8_Witness ==
    /\ pc = "pause"
    /\ people # << >>
    /\ yield[CurId] # {}

\* C9: the step that sends a person to enrichment is never taken for a
\* person whose name key is in enriched.
C9_EnrichedNeverEnrichedAgain ==
    [][ (pc = "people" /\ pc' = "failover")
          => /\ call' = "enrich"
             /\ NameKey(people[pidx].first_name, people[pidx].last_name,
                        CurFirm.name) \notin enriched ]_vars

\* C9 witness: a person without email whose name key is in enriched passed
\* the duplicate test and was appended without an enrichment request.
C9_Witness ==
    /\ skipped_enrichments > 0
    /\ pc = "people"
    /\ responses = 1

\* C10: in a pool of N >= 1 credentials every mark_exhausted call of a run
\* has marked a credential no earlier call had marked, and after N calls
\* all_exhausted is true and current_key returns None.
C10_PoolRotation ==
    \A s \in {"apollo", "hunter"} :
        LET p == IF s = "apollo" THEN apollo_pool ELSE hunter_pool
        IN  p.total >= 1 =>
              /\ Cardinality(p.exhausted) = marks[s]
              /\ p.exhausted \subseteq 0..(p.total - 1)
              /\ marks[s] = p.total =>
                    (all_exhausted(p) /\ current_key(p).key = NoKey)

\* C10 witness: a pool of two credentials after two mark_exhausted calls.
C10_Witness ==
    /\ hunter_pool.total = 2
    /\ marks["hunter"] = 2

\* The credentials of a pool that are not exhausted.
ActiveKeys(p) == (0..(p.total - 1)) \ p.exhausted

\* The first credential after index k, in rotation order, that is not
\* exhausted in pool p.
NextActive(p, k) ==
    LET d == CHOOSE n \in 1..p.total :
                 /\ (k + n) % p.total \in ActiveKeys(p)
                 /\ \A m \in 1..(n - 1) : (k + m) % p.total \notin ActiveKeys(p)
    IN  (k + d) % p.total

\* A request of the call at work has been answered 429, 403 or 401.
AnsweredExhausted(r) == r \in {429, 403, 401}

\* C11: when the request in flight is answered 429, 403 or 401 its credential
\* is marked exhausted and the count printed equals the pool size minus the
\* number of exhausted credentials; if a credential remains the call stays
\* in its loop, and its next step sends the same request with the next
\* credential in rotation order that is not exhausted; if none remains the
\* call returns the empty result.
C11_Failover ==
    [][ /\ (pc = "await" /\ AnsweredExhausted(resp'))
           => /\ CurPool.current_idx \in CurPool'.exhausted
              /\ logged'[svc] = CurPool'.total - Cardinality(CurPool'.exhausted)
              /\ IF ActiveKeys(CurPool') # {}
                 THEN /\ pc' = "failover"
                      /\ UNCHANGED << firm, svc, shape, call, people, pidx, contacts >>
                 ELSE /\ pc' = "people"
                      /\ call = "search" => (people' = << >> /\ UNCHANGED contacts)
                      /\ call = "enrich" =>
                            /\ pidx' = pidx + 1
                            /\ contacts' = Append(contacts,
                                  ApolloContact(people[pidx], CurFirm.name,
                                                people[pidx].email,
                                                people[pidx].linkedin_url))
        /\ (pc = "failover" /\ AnsweredExhausted(resp) /\ pc' # "idle")
           => /\ pc' = "await"
              /\ sent' = Append(sent, NextActive(CurPool, sent[Len(sent)]))
              /\ sent'[Len(sent')] \notin CurPool'.exhausted
              /\ UNCHANGED << firm, svc, shape, call, people, pidx >> ]_vars

\* C11 witness: a pool of two credentials, the first answered 429, "1 of 2
\* keys remaining" printed, the same request in flight with the second.
C11_Witness ==
    /\ pc = "await"
    /\ CurPool.total = 2
    /\ sent = << 0, 1 >>
    /\ logged[svc] = 1
    /\ CurPool.exhausted = {0}

\* A failover call is at work.
InCall == pc \in {"failover", "await"}

\* C12: the requests of one failover call number at most the pool size and
\* no two of them use the same credential, and every call returns.
C12_CallBounded ==
    /\ [](/\ Len(sent) <= CurPool.total
          /\ \A i \in 1..Len(sent), j \in 1..Len(sent) : i # j => sent[i] # sent[j])
    /\ (InCall ~> ~InCall)

\* C12 witness: a call on a pool of two credentials has returned after two
\* requests.
C12_Witness ==
    /\ pc = "people"
    /\ resp # NoResponse
    /\ CurPool.total = 2
    /\ Len(sent) = 2

\* The request came back with a status raise_for_status rejects and the loop
\* does not handle, or with no response.
AnsweredError(r) == r \in {500, 404, NetworkError}

\* C13: when the request in flight is answered 500 or 404 or fails at network
\* level, the call returns the empty result in that step: no credential is
\* marked, no further request is sent, the process keeps running, and the
\* caller goes on (an empty list of persons for a search; the person appended
\* with the search's own data for an enrichment).
C13_ErrorNotRetried ==
    [][ (pc = "await" /\ AnsweredError(resp'))
          => /\ UNCHANGED << apollo_pool, hunter_pool, sent, marks, completed >>
             /\ pc' = "people"
             /\ exit_code' = NoExit
             /\ UNCHANGED << firm, svc, shape >>
             /\ call = "search" => (people' = << >> /\ UNCHANGED contacts)
             /\ call = "enrich" =>
                   /\ pidx' = pidx + 1
                   /\ contacts' = Append(contacts,
                         ApolloContact(people[pidx], CurFirm.name,
                                       people[pidx].email,
                                       people[pidx].linkedin_url)) ]_vars

\* C13 witness: an enrichment answered 500 on a pool that keeps its key, the
\* merge loop past the person.
C13_Witness ==
    /\ pc = "people"
    /\ resp = 500
    /\ pidx = 2
    /\ CurPool.exhausted = {}
    /\ Len(contacts) = 1

\* Every credential of the pool is in its exhausted set.
PoolSpent(p) == p.total > 0 /\ ActiveKeys(p) = {}

\* C14: no request is in flight to a service whose pool is spent, and the
\* test in front of a service block skips a service that has no pool or a
\* spent one for this firm only: control goes to the other service of the
\* firm, then to the next firm, and a service with an active key is entered.
C14_SpentServiceSkipped ==
    /\ [](pc = "await" => ~PoolSpent(CurPool))
    /\ [][ (pc = "block" /\ pc' # "idle")
             => IF CurPool.total > 0 /\ ~PoolSpent(CurPool)
                THEN pc' = "check" /\ UNCHANGED << firm, svc, shape >>
                ELSE IF svc = "apollo"
                THEN pc' = "block" /\ firm' = firm /\ svc' = "hunter"
                ELSE IF firm < Len(firms)
                THEN pc' = "block" /\ firm' = firm + 1 /\ svc' = "apollo"
                ELSE pc' = "returned" ]_vars

\* C14 witness: the Apollo pool was spent at the first firm; at the second
\* firm a Hunter request is in flight.
C14_Witness ==
    /\ firm = 2
    /\ svc = "hunter"
    /\ pc = "await"
    /\ PoolSpent(apollo_pool)

\* C15: when mark_done runs for a query, the search of that query was
\* answered 2xx in this run.
C15_MarkedQueryWasExecuted == pc = "saving" => executed

\* The cache file is missing or holds anything but the document save() writes.
MissingOrCorrupt(file) == file.kind # "json"

\* C16: a main that starts with credentials on a missing or corrupt cache
\* file gets past the construction of SearchCache, with the empty set.
C16_CorruptCacheLoadsEmpty ==
    [][ (pc = "idle" /\ runs' = runs + 1 /\ env.apollo + env.hunter > 0
         /\ MissingOrCorrupt(cache_file))
          => (pc' = "block" /\ completed' = {}) ]_vars

\* The output file is missing, cannot be loaded, or lacks the expected sheet.
NoUsableBook(book) == ~book.exists \/ ~book.readable \/ ~book.sheet

\* C17: a non-fresh main that gets past the cache and finds the output file
\* missing, unreadable or without the expected sheet goes on into
\* collect_contacts with no contact, an empty seen and an empty enriched.
C17_BadBookLoadsNothing ==
    [][ (pc = "idle" /\ runs' = runs + 1 /\ env.apollo + env.hunter > 0
         /\ ~_loadRaises(cache_file) /\ NoUsableBook(xlsx))
          => /\ pc' = "block"
             /\ contacts' = << >> /\ seen' = {} /\ enriched' = {} ]_vars

\* C17 witness: a run is inside collect_contacts, started on a file that
\* holds rows but not the expected sheet.
C17_Witness ==
    /\ pc = "check"
    /\ ~fresh
    /\ xlsx.exists /\ xlsx.readable /\ ~xlsx.sheet /\ xlsx.rows # << >>
    /\ contacts = << >>

\* C18: a main started without any credential ends in that step with exit
\* status 1: no request was sent, and the cache file and the output file are
\* as they were.
C18_NoKeysExitsEarly ==
    [][ (pc = "idle" /\ runs' = runs + 1 /\ env.apollo + env.hunter = 0)
          => /\ pc' = "idle"
             /\ exit_code' = 1
             /\ UNCHANGED << cache_file, xlsx, responses >> ]_vars

\* C18 witness: main has exited with status 1 for want of credentials; the
\* cache file and the output file of an earlier session are there.
C18_Witness ==
    /\ env.apollo + env.hunter = 0
    /\ runs = 1
    /\ exit_code = 1
    /\ cache_file.kind = "json"
    /\ xlsx.exists

\* C19: within a run mark_done is called only for an identifier that is not
\* in the cache, and no step of the run takes an identifier out of it.
C19_MarkedOnceNeverUnmarked ==
    [][ /\ (pc # "saving" /\ pc' = "saving") => CurId \notin completed
        /\ (pc # "idle" /\ pc' # "idle") => completed \subseteq completed' ]_vars

\* C19 witness: a run that loaded a marked identifier has marked another.
C19_Witness ==
    /\ runs = 2
    /\ pc = "pause"
    /\ Cardinality(completed) = 2
    /\ Cardinality(marked) = 2

\* C20: no step of a run takes an index out of a pool's exhausted set.
C20_ExhaustedOnlyGrows ==
    [][ (pc # "idle" /\ pc' # "idle")
          => /\ apollo_pool.exhausted \subseteq apollo_pool'.exhausted
             /\ hunter_pool.exhausted \subseteq hunter_pool'.exhausted ]_vars

\* C20 witness: both credentials of a pool are exhausted, one after the
\* other.
C20_Witness ==
    /\ pc # "idle"
    /\ apollo_pool.total = 2
    /\ apollo_pool.exhausted = {0, 1}

\* C21: a main started with --fresh and with credentials, on whatever cache
\* file and output file, gets to collect_contacts with an emptied cache whose
\* file is removed, no contact, an empty seen and an empty enriched, and no
\* identifier reported done.
C21_FreshStartsFromNothing ==
    [][ (pc = "idle" /\ runs' = runs + 1 /\ env.apollo + env.hunter > 0 /\ fresh')
          => /\ pc' = "block"
             /\ completed' = {} /\ cache_file' = FileAbsent
             /\ contacts' = << >> /\ seen' = {} /\ enriched' = {}
             /\ \A id \in AllIds : ~is_done(completed', id) ]_vars

\* The identifiers of the hr and management queries, of every firm.
SideIds ==
    { CacheKey(CONSULTANCIES[f].domain, sh) :
        f \in 1..Len(CONSULTANCIES), sh \in {"hr", "management"} }

\* Control is inside a query: its failover call, its merge loop, its
\* mark_done or its closing sleep.
InQuery == pc \in {"failover", "await", "people", "saving", "pause"}

\* C22: with --it-only, at every firm, control never enters the hr or the
\* management query (so no request of theirs is sent), no step adds an hr or
\* management identifier to the cache, and the it query, when its identifier
\* is not cached, enters its search call and sends the request while the
\* pool has an active credential.
C22_ItOnlySkipsSideQueries ==
    /\ [](hunter_it_only => ~(InQuery /\ shape \in {"hr", "management"}))
    /\ [][ hunter_it_only =>
             /\ (completed' \ completed) \cap SideIds = {}
             /\ (pc = "check" /\ shape = "it" /\ ~is_done(completed, CurId)
                  /\ pc' # "idle")
                   => (pc' = "failover" /\ call' = "search" /\ shape' = "it")
             /\ (pc = "failover" /\ shape = "it" /\ call = "search"
                  /\ ~all_exhausted(hunter_pool) /\ pc' # "idle")
                   => (pc' = "await" /\ Len(sent') = Len(sent) + 1) ]_vars

\* C22 witness: collect_contacts has returned from an --it-only run over two
\* firms; the it query of the first firm was made and marked, and the Hunter
\* credential is still active.
C22_Witness ==
    /\ hunter_it_only
    /\ pc = "returned"
    /\ Len(firms) = 2
    /\ CacheKey("accenture.com", "it") \in completed
    /\ ~all_exhausted(hunter_pool) /\ hunter_pool.total > 0
    /\ completed \cap SideIds = {}

\* C23: when an Apollo query, narrow or broad, has been made and its
\* persons processed, its identifier is in the cache exactly when the pool is
\* not fully exhausted at that point or the query returned a person.
C23_ApolloMarkedIffActiveOrFound ==
    (pc = "pause" /\ svc = "apollo")
       => (is_done(completed, CurId)
             <=> (~all_exhausted(apollo_pool) \/ people # << >>))

\* The person the Apollo merge loop is at, and its name key.
AtPerson == pc = "people" /\ svc = "apollo" /\ pidx <= Len(people)
PersonKey == NameKey(people[pidx].first_name, people[pidx].last_name, CurFirm.name)

\* The person lacks an email, enrichment is enabled, the name key is not in
\* enriched and the pool is not exhausted.
EnrichmentDue ==
    /\ people[pidx].email = ""
    /\ enrich_apollo
    /\ PersonKey \notin enriched
    /\ ~all_exhausted(apollo_pool)

\* The same, for a person that has a first and a last name.
EnrichmentDueNamed ==
    /\ EnrichmentDue
    /\ people[pidx].first_name # ""
    /\ people[pidx].last_name # ""

\* The steps of the enrichment of a new person, given the condition under
\* which it is due: the merge loop calls enrich_person exactly when it is
\* due, the call sends its request, and an answer that carries an email
\* ends in a contact with that email and the name key in enriched.
EnrichmentSteps(due) ==
    /\ (AtPerson /\ PersonKey \notin seen /\ pc' # "idle")
          => ((pc' = "failover" /\ call' = "enrich") <=> due)
    /\ (pc = "failover" /\ call = "enrich" /\ sent = << >> /\ pc' # "idle")
          => (pc' = "await" /\ Len(sent') = 1)
    /\ (pc = "await" /\ call = "enrich" /\ got' # "")
          => /\ Len(contacts') = Len(contacts) + 1
             /\ contacts'[Len(contacts')].email = got'
             /\ contacts'[Len(contacts')].first_name = people[pidx].first_name
             /\ contacts'[Len(contacts')].last_name = people[pidx].last_name
             /\ enriched' = enriched \cup {PersonKey}

\* C24 as stated: for a new Apollo person the enrichment request is made
\* exactly when the person lacks an email, enrichment is enabled, the name
\* key is not in enriched and the pool is not exhausted; an answer carrying
\* an email gives the contact that email and adds the name key to enriched.
C24_EnrichedIffLackingEmail == [][EnrichmentSteps(EnrichmentDue)]_vars

\* C24 amended: the same, exactly when in addition the person has a
\* non-empty first name and a non-empty last name.
C24_EnrichedIffLackingEmailAndNamed == [][EnrichmentSteps(EnrichmentDueNamed)]_vars

\* C24 witness: an enrichment has been answered with an email; the contact
\* appended carries it and the person's name key is in enriched.
C24_Witness ==
    /\ pc = "people"
    /\ got # ""
    /\ contacts # << >>
    /\ contacts[Len(contacts)].email = got
    /\ ContactKey(contacts[Len(contacts)]) \in enriched

\* The merge loop is inside the enrichment call of the person it is at.
InEnrichment ==
    /\ svc = "apollo" /\ pc \in {"failover", "await"} /\ call = "enrich"
    /\ pidx <= Len(people)

\* The list has grown by exactly one contact, of source Apollo.io, for the
\* person the loop is at.
OneApolloContactAppended ==
    /\ Len(contacts') = Len(contacts) + 1
    /\ SubSeq(contacts', 1, Len(contacts)) = contacts
    /\ LET c == contacts'[Len(contacts')]
       IN  /\ c.source = "Apollo.io"
           /\ c.consultancy = CurFirm.name
           /\ c.first_name = people[pidx].first_name
           /\ c.last_name = people[pidx].last_name

\* C25: a person of an Apollo response whose name key is in seen is passed
\* over with contacts and seen unchanged; a person whose name key is not in
\* seen has the key added to seen at once, the list does not change while
\* the person's enrichment is under way, and the loop moves past the
\* person only with exactly one contact of source Apollo.io appended for it,
\* whatever the enrichment came back with.
C25_OneContactPerNewPerson ==
    [][ /\ (AtPerson /\ PersonKey \in seen /\ pc' # "idle")
             => (pc' = "people" /\ pidx' = pidx + 1
                 /\ UNCHANGED << contacts, seen, enriched >>)
        /\ (AtPerson /\ PersonKey \notin seen /\ pc' # "idle")
             => /\ seen' = seen \cup {PersonKey}
                /\ \/ pidx' = pidx + 1
                   \/ (pc' = "failover" /\ call' = "enrich"
                       /\ UNCHANGED << pidx, contacts >>)
        /\ (InEnrichment /\ pc' # "idle")
             => /\ UNCHANGED seen
                /\ pidx' \in {pidx, pidx + 1}
                /\ pidx' = pidx => UNCHANGED contacts
        /\ (((AtPerson /\ PersonKey \notin seen) \/ InEnrichment)
             /\ pidx' = pidx + 1)
             => OneApolloContactAppended ]_vars

\* C25 witness: the enrichment of a new person failed at network level and
\* the loop has moved on with the person's contact, without email, appended.
C25_Witness ==
    /\ pc = "people" /\ svc = "apollo"
    /\ Len(people) = 1 /\ pidx = 2
    /\ resp = NetworkError
    /\ contacts # << >>
    /\ contacts[Len(contacts)].source = "Apollo.io"
    /\ contacts[Len(contacts)].email = ""
    /\ ContactKey(contacts[Len(contacts)]) \in seen

\* The entry the Hunter loop is at, its lower-cased email and its name key
\* as members of seen.
AtEntry == pc = "people" /\ svc = "hunter" /\ pidx <= Len(people)
EntryEmailKey == << Lower(people[pidx].value) >>
EntryNameKey == NameKey(people[pidx].first_name, people[pidx].last_name, CurFirm.name)
EntryKnown == EntryEmailKey \in seen \/ EntryNameKey \in seen

\* The list has grown by exactly one contact, of source Hunter.io, for the
\* entry the loop is at.
OneHunterContactAppended ==
    /\ Len(contacts') = Len(contacts) + 1
    /\ SubSeq(contacts', 1, Len(contacts)) = contacts
    /\ LET c == contacts'[Len(contacts')]
       IN  /\ c.source = "Hunter.io"
           /\ c.consultancy = CurFirm.name
           /\ c.email = people[pidx].value
           /\ c.first_name = people[pidx].first_name
           /\ c.last_name = people[pidx].last_name

\* C26 as stated: an entry of a Hunter response whose lower-cased email or
\* name key is in seen is discarded; for any other entry both keys are added
\* to seen and exactly one contact of source Hunter.io is appended.
C26_HunterEntryBothKeys ==
    [][ (AtEntry /\ pc' # "idle")
          => /\ pidx' = pidx + 1
             /\ IF EntryKnown
                THEN UNCHANGED << contacts, seen, enriched >>
                ELSE /\ EntryEmailKey \in seen'
                     /\ EntryNameKey \in seen'
                     /\ OneHunterContactAppended ]_vars

\* C26 amended: the same, where the keys added to seen are the name key and,
\* when the entry has an email, its lower-cased email, and nothing else.
C26_HunterEntryKeys ==
    [][ (AtEntry /\ pc' # "idle")
          => /\ pidx' = pidx + 1
             /\ IF EntryKnown
                THEN UNCHANGED << contacts, seen, enriched >>
                ELSE /\ seen' = seen \cup {EntryNameKey}
                                    \cup (IF people[pidx].value # ""
                                          THEN {EntryEmailKey} ELSE {})
                     /\ OneHunterContactAppended ]_vars

\* C26 witness: a Hunter entry with an email has been appended and both its
\* keys are in seen.
C26_Witness ==
    /\ pc = "people" /\ svc = "hunter"
    /\ pidx = 2
    /\ contacts # << >>
    /\ contacts[Len(contacts)].source = "Hunter.io"
    /\ contacts[Len(contacts)].email # ""
    /\ EmailKey(contacts[Len(contacts)].email) \in seen
    /\ ContactKey(contacts[Len(contacts)]) \in seen

C28_RejectedKeyNeverReused ==
    pc = "await" => (sent # << >> /\ sent[Len(sent)] \notin rejected[svc])

\* C28 witness: the first credential was rejected in an earlier call of the
\* run; a later query's call has sent its first request with the second.
C28_Witness ==
    /\ pc = "await"
    /\ svc = "apollo" /\ shape = "broad"
    /\ rejected["apollo"] = {0}
    /\ sent = << 1 >>

\* A row has an organization name and a first name, a last name or an email.
RowCounts(row) ==
    /\ Strip(row[1]) # ""
    /\ (Strip(row[2]) # "" \/ Strip(row[3]) # "" \/ Strip(row[4]) # "")

\* One contact per row that counts, in row order.
ContactsOfRows(rows) ==
    LET kept == SelectSeq(rows, RowCounts)
    IN  [i \in 1..Len(kept) |->
            Contact(Strip(kept[i][1]), Strip(kept[i][2]), Strip(kept[i][3]),
                    Strip(kept[i][4]), Strip(kept[i][5]), Strip(kept[i][6]),
                    Strip(kept[i][7]), Strip(kept[i][8]), Strip(kept[i][9]))]

\* The name keys of the contacts of a list together with their non-empty
\* lower-cased emails.
SeenOf(cs) ==
    { ContactKey(cs[i]) : i \in 1..Len(cs) }
       \cup { EmailKey(cs[i].email) : i \in { j \in 1..Len(cs) : cs[j].email # "" } }

\* The name keys of the contacts of a list that carry an email.
EnrichedOf(cs) ==
    { ContactKey(cs[i]) : i \in { j \in 1..Len(cs) : cs[j].email # "" } }

\* main has just loaded the output file of an earlier run.
JustLoaded ==
    /\ pc = "block" /\ firm = 1 /\ svc = "apollo"
    /\ ~fresh
    /\ xlsx.exists /\ xlsx.readable /\ xlsx.sheet

\* C29: what a non-fresh run loads from a readable output file is one
\* contact per row that has an organization and a first name, last name or
\* email, in row order; seen is the name keys of those contacts together
\* with their non-empty lower-cased emails, and enriched the name keys of
\* those that carry an email.
C29_LoaderRebuilds ==
    JustLoaded
       => /\ contacts = ContactsOfRows(xlsx.rows)
          /\ seen = SeenOf(contacts)
          /\ enriched = EnrichedOf(contacts)

\* C29 witness: a sheet of six rows was loaded into three contacts; one of
\* them has no email and is not in enriched.
C29_Witness ==
    /\ JustLoaded
    /\ Len(xlsx.rows) = 6
    /\ Len(contacts) = 3
    /\ Cardinality(seen) = 4
    /\ Cardinality(enriched) = 2

\* C30: when collect_contacts returns, seen is the set of name keys and
\* non-empty lower-cased emails of the contacts of the list, and enriched the
\* set of name keys of the contacts that carry an email: the sets the loader
\* derives from the same list.
C30_SetsRebuildable ==
    pc = "returned"
       => /\ seen = SeenOf(contacts)
          /\ enriched = EnrichedOf(contacts)

\* C31: the list a non-fresh run loads from the output file an earlier run
\* wrote holds one contact per row the writer wrote, the same contacts in
\* the same order: no contact the earlier run wrote is missing.
C31_WrittenListLoadsBack ==
    JustLoaded
       => /\ Len(contacts) = Len(xlsx.rows)
          /\ \A i \in 1..Len(contacts) : RowOf(contacts[i]) = xlsx.rows[i]

\* C32: every step inside collect_contacts leaves the contact list as it
\* was or appends one contact at its end: the entries already in the list
\* stay, in their order and unchanged, from the list the run was given on.
C32_ContactsOnlyAppended ==
    [][ (pc # "idle" /\ pc' # "idle")
          => /\ Len(contacts') \in {Len(contacts), Len(contacts) + 1}
             /\ SubSeq(contacts', 1, Len(contacts)) = contacts ]_vars

\* C32 witness: a run that was given one loaded contact has appended
\* another behind it.
C32_Witness ==
    /\ pc # "idle"
    /\ ~fresh
    /\ Len(xlsx.rows) = 1
    /\ new_contacts = 1
    /\ Len(contacts) = 2
    /\ RowOf(contacts[1]) = xlsx.rows[1]

\* The requests and retries a failover call may still make: two steps for
\* every credential of the pool in use that is not exhausted.
CallLeft ==
    LET active == CurPool.total - Cardinality(CurPool.exhausted)
    IN  IF pc = "failover" THEN 2 * active + 1 ELSE 2 * active

\* The most steps one failover call takes, and the most one query takes.
CallMost == 2 * MaxKeys + 2
QueryMost == 6 + (MaxPeople + 1) * (CallMost + 1)

\* The steps the query under way may still take.
QueryLeft ==
    LET persons == Len(people) - pidx + 1
    IN  CASE pc = "pause"  -> 1
          [] pc = "saving" -> 2
          [] pc = "people" -> 3 + persons * (CallMost + 1)
          [] pc \in {"failover", "await"} /\ call = "enrich"
                           -> 3 + (persons - 1) * (CallMost + 1) + 1 + CallLeft
          [] pc \in {"failover", "await"} /\ call = "search"
                           -> 3 + MaxPeople * (CallMost + 1) + 1 + CallLeft
          [] pc = "check"  -> 4 + (MaxPeople + 1) * (CallMost + 1)
          [] pc = "block"  -> 5 + (MaxPeople + 1) * (CallMost + 1)
          [] OTHER         -> 0

\* The query shapes of one firm that come after the one under way.
ShapesLeft ==
    CASE shape = "titles"     -> 4
      [] shape = "broad"      -> 3
      [] shape = "it"         -> 2
      [] shape = "hr"         -> 1
      [] shape = "management" -> 0

\* The steps collect_contacts may still take: those of the query under way
\* and QueryMost for each query after it.
StepsLeft ==
    IF pc = "returned" THEN 0
    ELSE ((Len(firms) - firm) * 5 + ShapesLeft) * QueryMost + QueryLeft

\* C33: collect_contacts terminates, whatever the remote services answer and
\* however often: the call returns, and until then a count of steps left,
\* starting at no more than firms x five query shapes x QueryMost (people of
\* a response x retries of the pool) and never below zero, falls with every
\* step.
C33_CollectTerminates ==
    /\ <>(pc = "returned")
    /\ [](StepsLeft \in 0..(Len(firms) * 5 * QueryMost))
    /\ [][StepsLeft' < StepsLeft]_vars

\* C33 witness: the call has returned after every credential of two pools of
\* two was rejected and a search had found a person.
C33_Witness ==
    /\ pc = "returned"
    /\ apollo_pool.total = 2 /\ hunter_pool.total = 2
    /\ all_exhausted(apollo_pool) /\ all_exhausted(hunter_pool)
    /\ new_contacts > 0

\* C34: a request is sent only after a pause since the request before it: a
\* time.sleep has run between any two consecutive requests of a run.
C34_PauseBetweenCalls ==
    [][ (pc = "failover" /\ pc' = "await") => paused ]_vars

\* ------------------------------------------------- a KeyPool on its own
\* The most reads of current_key, and the most calls of mark_exhausted, in a
\* behaviour of the pool on its own.
MaxOps == 4

\* A KeyPool as its constructor leaves it (it raises ValueError for an empty
\* list of keys), outside any run; sent records what current_key returned
\* and marks the calls of mark_exhausted.
InitPool ==
    /\ env \in [apollo : 1..MaxKeys, hunter : {0}]
    /\ firms = SubSeq(CONSULTANCIES, 1, 1)
    /\ FreshTrail /\ exit_code = NoExit
    /\ cache_file = FileAbsent
    /\ xlsx = NoWorkbook
    /\ pc = "idle"
    /\ runs = 0
    /\ fresh = FALSE /\ enrich_apollo = FALSE /\ hunter_it_only = FALSE
    /\ apollo_pool = NewKeyPool(env.apollo) /\ hunter_pool = NoPool
    /\ completed = {}
    /\ contacts = << >> /\ seen = {} /\ enriched = {}
    /\ firm = 1 /\ svc = "apollo" /\ shape = "titles"
    /\ call = "search" /\ people = << >> /\ pidx = 1
    /\ new_contacts = 0 /\ skipped_searches = 0 /\ skipped_enrichments = 0
    /\ responses = 0
    /\ marked = {} /\ yield = NoYield /\ paid = {} /\ paid_now = {}
    /\ marks = NoMarks /\ rejected = NoRejected

\* pool.current_key is read.
ReadCurrent ==
    /\ Len(sent) < MaxOps
    /\ apollo_pool' = current_key(apollo_pool).pool
    /\ sent' = Append(sent, current_key(apollo_pool).key)
    /\ UNCHANGED << disk, pc, runs, exit_code, config, hunter_pool, completed, data,
                    where, call, people, pidx, stats, responses, ghost,
                    resp, executed, got, paused >>

\* pool.mark_exhausted() is called.
CallMark ==
    /\ marks.apollo < MaxOps
    /\ apollo_pool' = mark_exhausted(apollo_pool).pool
    /\ marks' = [marks EXCEPT !.apollo = @ + 1]
    /\ UNCHANGED << disk, pc, runs, exit_code, config, hunter_pool, completed, data,
                    where, call, people, pidx, stats, responses, trail,
                    marked, yield, paid, paid_now, rejected, logged >>

PoolOp == ReadCurrent \/ CallMark

SpecPool == InitPool /\ [][PoolOp]_vars

\* C35: after any sequence of current_key reads and mark_exhausted calls on a
\* pool, current_key returns None exactly when all_exhausted is true, and
\* otherwise returns a key whose index is not in exhausted and leaves
\* _current_idx where it was.
C35_CurrentNoneIffAllExhausted ==
    LET ck == current_key(apollo_pool)
    IN  /\ (ck.key = NoKey) <=> all_exhausted(apollo_pool)
        /\ ~all_exhausted(apollo_pool)
              => /\ ck.key \in 0..(apollo_pool.total - 1)
                 /\ ck.key \notin apollo_pool.exhausted
                 /\ ck.pool.current_idx = apollo_pool.current_idx

\* C35 witness: a pool of two keys whose reads returned the first key, then
\* after one mark_exhausted the second, then after another None.
C35_Witness ==
    /\ apollo_pool.total = 2
    /\ sent = << 0, 1, NoKey >>
    /\ marks.apollo = 2
    /\ all_exhausted(apollo_pool)

\* ------------------------------------------ collect_contacts after a load
\* A contact an earlier run wrote for the second person of ApolloPeople.
JoContact ==
    Contact("Accenture", "Jo", "Roe", "jd@acc.com", "Recruiter", "in/jo", "",
            "Apollo.io", "")

\* Output files a run may find: none, one an earlier run wrote, and one
\* edited by hand.
LoadedBooks ==
    { NoWorkbook,
      write_excel(<< PriorContact >>),
      write_excel(<< JoContact >>),
      [exists |-> TRUE, readable |-> TRUE, sheet |-> TRUE, rows |-> EditedRows] }

\* collect_contacts called by main with what load_existing_contacts made of
\* the output file, the cache file holding nothing or one query.
InitLoaded ==
    /\ env \in KeyLists
    /\ firms = SubSeq(CONSULTANCIES, 1, 1)
    /\ FreshTrail /\ exit_code = NoExit
    /\ xlsx \in LoadedBooks
    /\ pc = "block"
    /\ runs = 1
    /\ fresh = FALSE
    /\ enrich_apollo \in BOOLEAN
    /\ hunter_it_only = FALSE
    /\ apollo_pool = (IF env.apollo > 0 THEN NewKeyPool(env.apollo) ELSE NoPool)
    /\ hunter_pool = (IF env.hunter > 0 THEN NewKeyPool(env.hunter) ELSE NoPool)
    /\ completed \in { {}, {CacheKey("accenture.com", "broad")} }
    /\ cache_file = (IF completed = {} THEN FileAbsent ELSE FileJson(sorted(completed)))
    /\ contacts = load_existing_contacts(xlsx).contacts
    /\ seen = load_existing_contacts(xlsx).seen
    /\ enriched = load_existing_contacts(xlsx).enriched
    /\ firm = 1 /\ svc = "apollo" /\ shape = "titles"
    /\ call = "search" /\ people = << >> /\ pidx = 1
    /\ new_contacts = 0 /\ skipped_searches = 0 /\ skipped_enrichments = 0
    /\ responses = 0
    /\ marked = completed /\ yield = NoYield /\ paid = {} /\ paid_now = {}
    /\ marks = NoMarks /\ rejected = NoRejected

SpecLoaded == InitLoaded /\ [][Collect]_vars

\* C36: in a run whose sets came from the loader or are empty, enriched is a
\* subset of seen in every state; a person of the Apollo merge loop whose
\* name key is not in seen is not in enriched either, and the counter of
\* skipped enrichments stays at zero.
C36_EnrichedWithinSeen ==
    /\ enriched \subseteq seen
    /\ (AtPerson /\ ~ApolloIsDup(people[pidx], CurFirm.name, seen))
          => ~AlreadyEnriched(PersonKey, enriched)
    /\ skipped_enrichments = 0

\* C36 witness: a run that loaded a contact with an email has found a new
\* person, who passed the duplicate test, and is asking for the enrichment.
C36_Witness ==
    /\ ~fresh /\ xlsx.exists
    /\ load_existing_contacts(xlsx).enriched # {}
    /\ enriched # {}
    /\ pc = "await" /\ call = "enrich"
    /\ PersonKey \in seen /\ PersonKey \notin enriched

====
